---- MODULE Spec2Model ----
(***************************************************************************)
(* A model of the vectornav driver node (src/vectornav/src/main_old.cpp):  *)
(* the start-up path of main (covariance parameters, baud negotiation,     *)
(* connectivity check, device identification, stream configuration), the   *)
(* running state (ros::spin dispatching reset_odom requests on the main    *)
(* thread while the sensor library delivers packets to                     *)
(* BinaryAsyncMessageReceived on its own thread) and the shutdown path.    *)
(*                                                                         *)
(* The sensor library (vn::sensors::VnSensor) and the parameter server are *)
(* not part of the source: every call into them is an input of the model.  *)
(* A call that talks to the device either returns or throws; main catches  *)
(* exceptions only inside the negotiation loop, so a throw anywhere else   *)
(* terminates the process.                                                 *)
(***************************************************************************)
EXTENDS Integers, Sequences, FiniteSets, TLC

VARIABLES
    pc,                       \* position of main
    candidates,               \* vs.supportedBaudrates()
    SensorBaudrate,           \* parameter serial_baud
    async_output_rate,        \* parameter async_output_rate
    SensorImuRate,            \* parameter fixed_imu_rate
    writes,                   \* stream configuration writes issued so far
    i,                        \* static int i of the negotiation loop
    baudSet,                  \* bool baudSet
    portOpen,                 \* vs holds an open serial port
    portBaud,                 \* rate the port was last opened or reopened at
    handlerRegistered,        \* vs has an async packet handler
    devObeys,                 \* device answers exactly at its current rate
    devBaud,                  \* rate the device is currently set to
    devStart,                 \* rate the device was set to at start-up
    attempts,                 \* the vs.connect calls made so far
    loopDisconnects,          \* vs.disconnect() calls made by the loop
    loopSleeps,               \* 0.2 s settle waits made by the loop
    verified,                 \* outcome of vs.verifySensorConnectivity()
    linear_accel_covariance,
    angular_vel_covariance,
    orientation_covariance,
    cfgMalformed,             \* a loaded covariance value was not 9 numbers
    rpc_temp,                 \* the global the covariance parameters are read into
    configured,               \* the covariance parameters found on the server
    initial_position,
    initial_position_set,
    srv,                      \* resetOdom: idle or running (inside ros::spin)
    srvRet,                   \* return value of the last resetOdom call
    resetsPending,            \* resetOdom calls since the last position packet
    cb,                       \* BinaryAsyncMessageReceived: idle or running
    cbPacket,                 \* the packet the callback is processing
    nPackets,                 \* packets delivered so far
    published                 \* records handed to the publishers

vars == <<pc, candidates, SensorBaudrate, async_output_rate, SensorImuRate,
          writes, i, baudSet, portOpen, portBaud,
          handlerRegistered, devObeys, devBaud, devStart, attempts,
          loopDisconnects, loopSleeps, verified, linear_accel_covariance, angular_vel_covariance,
          orientation_covariance, cfgMalformed, rpc_temp, configured,
          initial_position,
          initial_position_set, srv, srvRet, resetsPending, cb, cbPacket,
          nPackets, published>>

(***************************************************************************)
(* Bounds of the model.                                                    *)
(***************************************************************************)
MaxPackets == 2
MaxResets == 2
MaxCovLen == 10

(***************************************************************************)
(* Program constants.                                                      *)
(***************************************************************************)
Incompatible == 128000
DefaultAsyncRate == 40
DefaultImuRate == 800
LastIndex == 8
CovSize == 9

\* The candidate rates in the order of the comment at line 170 ...
RatesLine170 ==
    <<9600, 19200, 38400, 57600, 128000, 115200, 230400, 460800, 921600>>
\* ... and in the order of the list printed at line 209.
RatesLine209 ==
    <<9600, 19200, 38400, 57600, 115200, 128000, 230400, 460800, 921600>>

CandidateLists == {RatesLine170, RatesLine209}

\* Values of serial_baud: the default, the first candidate, the excluded rate.
RequestedBauds == {115200, 9600, Incompatible}

\* Rates the device may be set to: every candidate, and one that is none.
Unlisted == {4800}
DeviceRates == {RatesLine209[k] : k \in 1..Len(RatesLine209)} \cup Unlisted

\* vec3d values.
ZeroVec == <<0, 0, 0>>
Positions == {<<1, 2, 3>>, <<4, 5, 6>>}

\* A parsed packet: whether it carries a position (the GPS/INS fields) and
\* whether it carries the IMU fields.
NoPacket == [hasPos |-> FALSE, hasImu |-> FALSE, pos |-> ZeroVec]
Packets ==
    {NoPacket}
    \cup {[hasPos |-> TRUE, hasImu |-> FALSE, pos |-> p] : p \in Positions}
    \cup {[hasPos |-> FALSE, hasImu |-> TRUE, pos |-> ZeroVec],
          [hasPos |-> TRUE, hasImu |-> TRUE, pos |-> <<1, 2, 3>>]}

(***************************************************************************)
(* Covariance parameters.                                                  *)
(***************************************************************************)
ZeroCov == [k \in 1..CovSize |-> 0]

\* An XmlRpcValue: an array of typed entries, or a value of another type.
Entry(t, v) == [type |-> t, val |-> v]
Scalar == [isArray |-> FALSE, elems |-> <<>>]
DoubleArray(n) == [isArray |-> TRUE, elems |-> [k \in 1..n |-> Entry("double", 10 + k)]]
ArrayWith(n, bad, t) ==
    [isArray |-> TRUE,
     elems |-> [k \in 1..n |-> IF k = bad THEN Entry(t, 0) ELSE Entry("double", 10 + k)]]

\* What the parameter server may hold under a covariance name.
CovInputs ==
    {Scalar}
    \cup {DoubleArray(n) : n \in (CovSize - 1)..MaxCovLen}
    \cup {ArrayWith(CovSize, bad, t) : bad \in {1, CovSize}, t \in {"string", "int"}}

\* The precondition of the covariance loader: exactly 9 numeric entries.
NineNumeric(rpc) ==
    /\ rpc.isArray
    /\ Len(rpc.elems) = CovSize
    /\ \A k \in 1..CovSize : rpc.elems[k].type \in {"double", "int"}

\* rpc[i].getType(): an index past the end yields an entry of no type.
ElemType(rpc, idx) ==
    IF idx + 1 <= Len(rpc.elems) THEN rpc.elems[idx + 1].type ELSE "invalid"

RECURSIVE setCovLoop(_, _, _)
setCovLoop(rpc, idx, output) ==
    IF idx < CovSize
    THEN IF ElemType(rpc, idx) = "double"
         THEN setCovLoop(rpc, idx + 1,
                         [output EXCEPT ![idx + 1] = rpc.elems[idx + 1].val])
         ELSE [ok |-> FALSE, output |-> output]
    ELSE [ok |-> TRUE, output |-> output]

\* setCov: ok = FALSE when a ROS_ASSERT fails (assertions compiled in, as
\* in a build without NDEBUG).
setCov(rpc) ==
    IF rpc.isArray
    THEN setCovLoop(rpc, 0, ZeroCov)
    ELSE [ok |-> FALSE, output |-> ZeroCov]

(***************************************************************************)
(* The initial state: the globals as the file initialises them, the        *)
(* parameters and the device as the environment provides them.             *)
(***************************************************************************)
InitProcess ==
    /\ pc = "cov_linear"
    /\ i = 0
    /\ baudSet = FALSE
    /\ portOpen = FALSE
    /\ portBaud = 0
    /\ handlerRegistered = FALSE
    /\ devObeys \in BOOLEAN
    /\ devBaud \in DeviceRates
    /\ (~devObeys => devBaud \in Unlisted)
    /\ devStart = devBaud
    /\ attempts = <<>>
    /\ writes = <<>>
    /\ loopDisconnects = 0
    /\ loopSleeps = 0
    /\ verified = "none"
    /\ linear_accel_covariance = ZeroCov
    /\ angular_vel_covariance = ZeroCov
    /\ orientation_covariance = ZeroCov
    /\ cfgMalformed = FALSE
    /\ rpc_temp = Scalar
    /\ configured = {}
    /\ srv = "idle"
    /\ srvRet = "none"
    /\ resetsPending = 0
    /\ cb = "idle"
    /\ cbPacket = NoPacket
    /\ nPackets = 0
    /\ published = <<>>

Init ==
    /\ InitProcess
    /\ candidates \in CandidateLists
    /\ SensorBaudrate \in RequestedBauds
    /\ async_output_rate = DefaultAsyncRate
    /\ SensorImuRate = DefaultImuRate
    /\ initial_position = ZeroVec
    /\ initial_position_set = FALSE

(***************************************************************************)
(* Groups of variables an action leaves alone.                             *)
(***************************************************************************)
configVars == <<candidates, SensorBaudrate, async_output_rate, SensorImuRate>>
streamVars == <<writes>>
linkVars == <<i, baudSet, portOpen, portBaud, devBaud, attempts>>
deviceVars == <<devObeys, devStart>>
settleVars == <<loopDisconnects, loopSleeps>>
covVars == <<linear_accel_covariance, angular_vel_covariance,
             orientation_covariance, cfgMalformed, rpc_temp, configured>>
originVars == <<initial_position, initial_position_set>>
serviceVars == <<srv, srvRet, resetsPending>>
packetVars == <<cb, cbPacket, nPackets, published>>

(***************************************************************************)
(* main, lines 136-148: the three covariance parameters.  getParam either  *)
(* finds nothing, and the global keeps its zeros, or yields a value that   *)
(* setCov converts; a failed ROS_ASSERT in setCov ends the process.        *)
(***************************************************************************)
LoadCov(here, next, name, current, loaded) ==
    /\ pc = here
    /\ \/ /\ loaded = current
          /\ pc' = next
          /\ UNCHANGED <<cfgMalformed, rpc_temp, configured>>
       \/ \E rpc \in CovInputs :
            LET r == setCov(rpc) IN
            /\ rpc_temp' = rpc
            /\ configured' = configured \cup {name}
            /\ cfgMalformed' = (cfgMalformed \/ ~NineNumeric(rpc))
            /\ IF r.ok
               THEN loaded = r.output /\ pc' = next
               ELSE loaded = current /\ pc' = "aborted"

LoadLinear ==
    /\ LoadCov("cov_linear", "cov_angular", "linear_accel_covariance",
               linear_accel_covariance, linear_accel_covariance')
    /\ UNCHANGED <<angular_vel_covariance, orientation_covariance>>
    /\ UNCHANGED <<configVars, streamVars, linkVars, deviceVars, settleVars, handlerRegistered,
                   verified, originVars, serviceVars, packetVars>>

LoadAngular ==
    /\ LoadCov("cov_angular", "cov_orient", "angular_vel_covariance",
               angular_vel_covariance, angular_vel_covariance')
    /\ UNCHANGED <<linear_accel_covariance, orientation_covariance>>
    /\ UNCHANGED <<configVars, streamVars, linkVars, deviceVars, settleVars, handlerRegistered,
                   verified, originVars, serviceVars, packetVars>>

LoadOrient ==
    /\ LoadCov("cov_orient", "while", "orientation_covariance",
               orientation_covariance, orientation_covariance')
    /\ UNCHANGED <<linear_accel_covariance, angular_vel_covariance>>
    /\ UNCHANGED <<configVars, streamVars, linkVars, deviceVars, settleVars, handlerRegistered,
                   verified, originVars, serviceVars, packetVars>>

(***************************************************************************)
(* main, lines 159-200: the baud negotiation loop.                         *)
(***************************************************************************)
\* A loop that does not test baudSet.
LoopContinuesRegardless(set) == TRUE

\* while(!baudSet)
LoopContinues(set) == ~set

\* A guard that lets an attempt through when either rate is compatible.
ShouldAttemptEither(probe, requested) ==
    probe # Incompatible \/ requested # Incompatible

\* A guard that tests the requested rate alone.
ShouldAttemptRequestedOnly(probe, requested) == requested # Incompatible

\* A guard that tests the probe rate alone.
ShouldAttemptProbeOnly(probe, requested) == probe # Incompatible

\* if(defaultBaudrate != 128000 && SensorBaudrate != 128000)
ShouldAttempt(probe, requested) ==
    probe # Incompatible /\ requested # Incompatible

\* An index that advances by two.
NextIndexByTwo(x) == x + 2

\* i++
NextIndex(x) == x + 1

\* A loop that gives up one candidate early.
LoopBreaksEarly(x) == x > LastIndex - 1

\* if(i > 8) break
LoopBreaks(x) == x > LastIndex

\* Whether a call that needs an answer from the device gets one, or throws:
\* no call is answered on a closed port; on an open port a device that
\* obeys answers exactly at the device's rate, any other device answers
\* or not.
DeviceAnswers ==
    IF devObeys THEN {portOpen /\ portBaud = devBaud}
    ELSE IF portOpen THEN BOOLEAN
    ELSE {FALSE}

\* vs.connect(SensorPort, probe) returns (TRUE) or throws (FALSE).
ConnectReturns(probe) ==
    IF devObeys /\ probe = devBaud THEN {TRUE} ELSE BOOLEAN

WhileTest ==
    /\ pc = "while"
    /\ pc' = IF LoopContinues(baudSet) THEN "body" ELSE "verify"
    /\ UNCHANGED <<configVars, streamVars, linkVars, deviceVars, settleVars, handlerRegistered,
                   verified, covVars, originVars, serviceVars, packetVars>>

TryConnect ==
    /\ pc = "body"
    /\ LET defaultBaudrate == candidates[i + 1] IN
       IF ShouldAttempt(defaultBaudrate, SensorBaudrate)
       THEN /\ attempts' = Append(attempts,
                                  [idx |-> i, probe |-> defaultBaudrate,
                                   target |-> SensorBaudrate])
            /\ \E returns \in ConnectReturns(defaultBaudrate) :
                 IF returns
                 THEN portOpen' = TRUE /\ portBaud' = defaultBaudrate
                      /\ pc' = "connected"
                 ELSE UNCHANGED <<portOpen, portBaud>> /\ pc' = "catch"
       ELSE /\ pc' = "incr"
            /\ UNCHANGED <<attempts, portOpen, portBaud>>
    /\ UNCHANGED <<configVars, streamVars, i, baudSet, devBaud, deviceVars, settleVars,
                   handlerRegistered, verified, covVars, originVars,
                   serviceVars, packetVars>>

ChangeBaud ==
    /\ pc = "connected"
    /\ \E returns \in DeviceAnswers :
         IF returns
         THEN /\ portBaud' = SensorBaudrate
              /\ devBaud' = SensorBaudrate
              /\ baudSet' = TRUE
              /\ pc' = "incr"
         ELSE /\ UNCHANGED <<portBaud, devBaud, baudSet>>
              /\ pc' = "catch"
    /\ UNCHANGED <<configVars, streamVars, i, portOpen, attempts, deviceVars, settleVars,
                   handlerRegistered, verified, covVars, originVars,
                   serviceVars, packetVars>>

\* A disconnect that leaves the port as it was.
vsDisconnectSkipped(open) == open

\* vs.disconnect() on the port: it is closed afterwards.
vsDisconnect(open) == FALSE

\* catch(...): vs.disconnect(); ros::Duration(0.2).sleep();
Catch ==
    /\ pc = "catch"
    /\ portOpen' = vsDisconnect(portOpen)
    /\ loopDisconnects' = loopDisconnects + 1
    /\ loopSleeps' = loopSleeps + 1
    /\ pc' = "incr"
    /\ UNCHANGED <<configVars, streamVars, i, baudSet, portBaud, devBaud, attempts,
                   deviceVars, handlerRegistered, verified, covVars,
                   originVars, serviceVars, packetVars>>

Incr ==
    /\ pc = "incr"
    /\ i' = NextIndex(i)
    /\ pc' = IF LoopBreaks(i') THEN "verify" ELSE "while"
    /\ UNCHANGED <<configVars, streamVars, baudSet, portOpen, portBaud, devBaud,
                   attempts, deviceVars, settleVars, handlerRegistered, verified,
                   covVars, originVars, serviceVars, packetVars>>

(***************************************************************************)
(* main, lines 202-251: connectivity check, identification, stream         *)
(* configuration.  Only verifySensorConnectivity reports failure by its    *)
(* return value; the other calls are not inside a try block.               *)
(***************************************************************************)
Verify ==
    /\ pc = "verify"
    /\ \E answers \in DeviceAnswers :
         verified' = IF answers THEN "ok" ELSE "failed"
    /\ pc' = "identify"
    /\ UNCHANGED <<configVars, streamVars, linkVars, deviceVars, settleVars, handlerRegistered,
                   covVars, originVars, serviceVars, packetVars>>

\* A device call outside any try block: continue at next, or terminate.
DeviceCall(here, next) ==
    /\ pc = here
    /\ \E answers \in DeviceAnswers :
         pc' = IF answers THEN next ELSE "aborted"
    /\ UNCHANGED <<configVars, streamVars, linkVars, deviceVars, settleVars, handlerRegistered,
                   verified, covVars, originVars, serviceVars, packetVars>>

\* readModelNumber ... determineDeviceFamily
Identify == DeviceCall("identify", "write_freq1")

\* An exception that is swallowed: main goes on.
Swallowed(next) == next

\* An exception thrown outside any try block: the process is terminated.
Uncaught(next) == "aborted"

\* A register write of the stream configuration: the write is issued, and
\* the device accepts it or the call throws.
StreamWrite(here, next, reg, value) ==
    /\ pc = here
    /\ \E answers \in DeviceAnswers :
         /\ writes' = Append(writes,
                             [reg |-> reg, value |-> value, ok |-> answers])
         /\ pc' = IF answers THEN next ELSE Uncaught(next)
    /\ UNCHANGED <<configVars, linkVars, deviceVars, settleVars,
                   handlerRegistered, verified, covVars, originVars,
                   serviceVars, packetVars>>

\* The least value of a 32-bit int.
IntMin == -2147483647 - 1

\* The quotient of two ints truncated toward zero, for b # 0 and a quotient
\* that is an int: the floor quotient, plus one when it is negative and
\* inexact.
Truncated(a, b) ==
    IF b = IntMin
    THEN (IF a = IntMin THEN 1 ELSE 0)
    ELSE LET f == a \div b
             exact == a % (IF b < 0 THEN -b ELSE b) = 0
         IN  IF f < 0 /\ ~exact THEN f + 1 ELSE f

\* The int division a / b of line 230: the quotient truncated toward zero.
\* A division by zero, and the division of the least int by -1, whose
\* quotient is not an int, are undefined: the division traps (SIGFPE), or
\* yields 0 and the wrapped quotient.
Divide(a, b) ==
    IF b = 0
    THEN {[trap |-> TRUE, q |-> 0], [trap |-> FALSE, q |-> 0]}
    ELSE IF a = IntMin /\ b = -1
    THEN {[trap |-> TRUE, q |-> 0], [trap |-> FALSE, q |-> IntMin]}
    ELSE {[trap |-> FALSE, q |-> Truncated(a, b)]}

\* vs.writeAsyncDataOutputFrequency(async_output_rate), line 225
WriteFreq1 ==
    StreamWrite("write_freq1", "write_bor", "freq", async_output_rate)

\* BinaryOutputRegister bor(..., SensorImuRate / async_output_rate, ...);
\* vs.writeBinaryOutput1(bor), lines 228-247
WriteBinaryOutput ==
    \E d \in Divide(SensorImuRate, async_output_rate) :
      IF d.trap
      THEN /\ pc = "write_bor"
           /\ pc' = "aborted"
           /\ UNCHANGED <<configVars, streamVars, linkVars, deviceVars,
                          settleVars, handlerRegistered, verified, covVars,
                          originVars, serviceVars, packetVars>>
      ELSE StreamWrite("write_bor", "write_freq2", "bor", d.q)

\* vs.writeAsyncDataOutputFrequency(async_output_rate), line 250
WriteFreq2 ==
    StreamWrite("write_freq2", "register", "freq", async_output_rate)

RegisterHandler ==
    /\ pc = "register"
    /\ handlerRegistered' = TRUE
    /\ pc' = "spin"
    /\ UNCHANGED <<configVars, streamVars, linkVars, deviceVars, settleVars, verified, covVars,
                   originVars, serviceVars, packetVars>>

(***************************************************************************)
(* The running state, lines 256-259: ros::spin() dispatches reset_odom     *)
(* requests on the main thread; the sensor library calls the registered    *)
(* handler on its own thread for every packet it receives.                 *)
(***************************************************************************)
\* A handler that returns without clearing the flag.
resetOdomKeepsFlag(isSet) == [isSet |-> isSet, ret |-> TRUE]

\* resetOdom, lines 96-100, on the origin flag: the new flag and the result.
resetOdom(isSet) == [isSet |-> FALSE, ret |-> TRUE]

\* ros::spin() takes a reset_odom request from its queue and calls resetOdom.
ResetRequested ==
    /\ pc = "spin"
    /\ srv = "idle"
    /\ resetsPending < MaxResets
    /\ srv' = "running"
    /\ UNCHANGED <<pc, configVars, streamVars, linkVars, deviceVars, settleVars, handlerRegistered,
                   verified, covVars, originVars, srvRet, resetsPending,
                   packetVars>>

ResetOdom ==
    /\ pc = "spin"
    /\ srv = "running"
    /\ srv' = "idle"
    /\ LET r == resetOdom(initial_position_set) IN
       /\ initial_position_set' = r.isSet
       /\ srvRet' = IF r.ret THEN "true" ELSE "false"
    /\ resetsPending' = resetsPending + 1
    /\ UNCHANGED <<pc, configVars, streamVars, linkVars, deviceVars, settleVars, handlerRegistered,
                   verified, covVars, initial_position, packetVars>>

\* The origin globals resetOdom writes (line 98).
ResetOriginAccesses == {"initial_position_set"}

\* A callback that reads and writes the origin for a packet with a position.
CallbackOriginAccessesOnFix(p) ==
    IF p.hasPos THEN {"initial_position", "initial_position_set"} ELSE {}

\* The origin globals the body of BinaryAsyncMessageReceived reads or
\* writes while it processes packet p: lines 276-277 touch the packet, cd
\* and user_data, and no global.
CallbackOriginAccesses(p) == {}

\* A callback that records the first position as the origin.
BinaryAsyncMessageReceivedSetsOrigin(globals, p) ==
    IF p.hasPos /\ ~globals.isSet
    THEN [globals EXCEPT !.position = p.pos, !.isSet = TRUE]
    ELSE globals

\* BinaryAsyncMessageReceived, lines 274-280, on the globals it can reach:
\* the packet is parsed and the user data copied, and nothing is stored or
\* published.
BinaryAsyncMessageReceived(globals, p) == globals

PacketArrives ==
    /\ handlerRegistered
    /\ portOpen
    /\ cb = "idle"
    /\ nPackets < MaxPackets
    /\ \E p \in Packets : cbPacket' = p
    /\ cb' = "running"
    /\ nPackets' = nPackets + 1
    /\ UNCHANGED <<pc, configVars, streamVars, linkVars, deviceVars, settleVars, handlerRegistered,
                   verified, covVars, originVars, serviceVars, published>>

CallbackReturns ==
    /\ cb = "running"
    /\ LET after == BinaryAsyncMessageReceived(
                        [position |-> initial_position,
                         isSet |-> initial_position_set,
                         out |-> published], cbPacket) IN
       /\ initial_position' = after.position
       /\ initial_position_set' = after.isSet
       /\ published' = after.out
    /\ resetsPending' = IF cbPacket.hasPos THEN 0 ELSE resetsPending
    /\ cb' = "idle"
    /\ cbPacket' = NoPacket
    /\ UNCHANGED <<pc, configVars, streamVars, linkVars, deviceVars, settleVars, handlerRegistered,
                   verified, covVars, srv, srvRet, nPackets>>

(***************************************************************************)
(* Shutdown, lines 261-268.                                                *)
(***************************************************************************)
\* ros::ok() turns false and ros::spin() returns.
StopRequested ==
    /\ pc = "spin"
    /\ srv = "idle"
    /\ pc' = "unregister"
    /\ UNCHANGED <<configVars, streamVars, linkVars, deviceVars, settleVars, handlerRegistered,
                   verified, covVars, originVars, serviceVars, packetVars>>

Unregister ==
    /\ pc = "unregister"
    /\ handlerRegistered' = FALSE
    /\ pc' = "grace"
    /\ UNCHANGED <<configVars, streamVars, linkVars, deviceVars, settleVars, verified, covVars,
                   originVars, serviceVars, packetVars>>

\* Whether ros::Duration(0.5).sleep() has returned: the sleep waits for the
\* time to pass and for nothing else.
GraceOver(callback) == TRUE

Grace ==
    /\ pc = "grace"
    /\ GraceOver(cb)
    /\ pc' = "disconnect"
    /\ UNCHANGED <<configVars, streamVars, linkVars, deviceVars, settleVars, handlerRegistered,
                   verified, covVars, originVars, serviceVars, packetVars>>

Disconnect ==
    /\ pc = "disconnect"
    /\ portOpen' = vsDisconnect(portOpen)
    /\ pc' = "settle"
    /\ UNCHANGED <<configVars, streamVars, i, baudSet, portBaud, devBaud, attempts,
                   deviceVars, settleVars, handlerRegistered, verified, covVars,
                   originVars, serviceVars, packetVars>>

\* ros::Duration(0.5).sleep(); return 0;
Return ==
    /\ pc = "settle"
    /\ pc' = "done"
    /\ UNCHANGED <<configVars, streamVars, linkVars, deviceVars, settleVars, handlerRegistered,
                   verified, covVars, originVars, serviceVars, packetVars>>

Next ==
    \/ LoadLinear
    \/ LoadAngular
    \/ LoadOrient
    \/ WhileTest
    \/ TryConnect
    \/ ChangeBaud
    \/ Catch
    \/ Incr
    \/ Verify
    \/ Identify
    \/ WriteFreq1
    \/ WriteBinaryOutput
    \/ WriteFreq2
    \/ RegisterHandler
    \/ ResetRequested
    \/ ResetOdom
    \/ PacketArrives
    \/ CallbackReturns
    \/ StopRequested
    \/ Unregister
    \/ Grace
    \/ Disconnect
    \/ Return

Spec == Init /\ [][Next]_vars

(***************************************************************************)
(* The same program under the scheduling the platform provides: main keeps *)
(* running, and every call it makes returns or throws (the sensor library  *)
(* waits at most the response timeout set at line 167, a sleep ends).      *)
(***************************************************************************)
MainStartup ==
    \/ LoadLinear \/ LoadAngular \/ LoadOrient
    \/ WhileTest \/ TryConnect \/ ChangeBaud \/ Catch \/ Incr
    \/ Verify \/ Identify \/ WriteFreq1 \/ WriteBinaryOutput \/ WriteFreq2
    \/ RegisterHandler

FairSpec == Spec /\ WF_vars(MainStartup)

(***************************************************************************)
(* Properties of the baud negotiation loop.                                *)
(***************************************************************************)
InLoop == pc \in {"while", "body", "connected", "catch", "incr"}
\* main has just left the loop: by the while test or by the break.
LoopOver == pc = "verify"
InList(list, rate) == \E k \in 1..Len(list) : list[k] = rate
\* The place of a rate in a list, 0 for a rate that is not in it.
IndexOf(list, rate) ==
    IF InList(list, rate)
    THEN CHOOSE k \in 1..Len(list) : list[k] = rate
    ELSE 0

AttemptsInListOrder ==
    /\ Len(attempts) <= Len(candidates)
    /\ \A k \in 1..Len(attempts) :
         /\ attempts[k].idx \in 0..(Len(candidates) - 1)
         /\ attempts[k].probe = candidates[attempts[k].idx + 1]
    /\ \A k, m \in 1..Len(attempts) :
         k < m => attempts[k].idx < attempts[m].idx

\* C1: in one run of the negotiation loop every candidate is used for at
\* most one connect attempt, the attempts are made in increasing list order
\* (so there are never more of them than candidates), and no connect
\* attempt is made once an attempt has succeeded (baudSet).
C1_AttemptsOnceInOrderUntilSuccess ==
    /\ []AttemptsInListOrder
    /\ [][baudSet => attempts' = attempts]_vars

\* The loop succeeded at its third attempt and main went on to spin.
C1_Witness ==
    /\ pc = "spin"
    /\ baudSet
    /\ Len(attempts) = 3

\* C2: no connect call has probe rate 128000, and no connect call (hence
\* no changeBaudRate call, which follows a connect with the requested rate
\* as its target) is made when the requested rate is 128000.
C2_NeverIncompatible ==
    /\ \A k \in 1..Len(attempts) :
         /\ attempts[k].probe # Incompatible
         /\ attempts[k].target # Incompatible
    /\ (pc = "connected" =>
          SensorBaudrate # Incompatible /\ portBaud # Incompatible)

\* The loop has passed the 128000 entry of the list and probed beyond it.
C2_Witness ==
    /\ \E k \in 1..Len(attempts) :
         attempts[k].idx > IndexOf(candidates, Incompatible) - 1
    /\ pc = "connected"

\* The candidates a device at rate d makes the loop probe: those before d
\* in the list and d itself, without 128000.
ProbedUpTo(d) ==
    SelectSeq([k \in 1..IndexOf(candidates, d) |-> candidates[k]],
              LAMBDA b : b # Incompatible)

AttemptProbes == [k \in 1..Len(attempts) |-> attempts[k].probe]

\* C3 as claimed: with a device that answers exactly at its current rate D,
\* D in the candidate list, the loop ends with success, the link at the
\* requested rate, having probed only candidates up to D.
C3_AsClaimed ==
    (LoopOver /\ devObeys /\ InList(candidates, devStart)) =>
        /\ baudSet
        /\ portOpen
        /\ portBaud = SensorBaudrate
        /\ \A k \in 1..Len(attempts) :
             attempts[k].idx + 1 <= IndexOf(candidates, devStart)

\* The device answers exactly at its current rate, which is a candidate
\* other than 128000, and the requested rate is not 128000 either.
Reachable ==
    /\ devObeys
    /\ InList(candidates, devStart)
    /\ devStart # Incompatible
    /\ SensorBaudrate # Incompatible

LinkedAtRequested ==
    /\ baudSet
    /\ portOpen
    /\ portBaud = SensorBaudrate
    /\ devBaud = SensorBaudrate
    /\ AttemptProbes = ProbedUpTo(devStart)

\* C3, amended: the same, provided neither D nor the requested rate is
\* 128000: once started, the loop ends, and it ends with success, the link
\* and the device at the requested rate, having probed exactly the
\* candidates before D other than 128000, in list order, and D last.
C3_ObeyingDeviceIsReached ==
    /\ [](LoopOver /\ Reachable => LinkedAtRequested)
    /\ ((InLoop /\ Reachable) ~> (LoopOver /\ LinkedAtRequested))

\* A device found at the last candidate, 921600, the request being 115200.
C3_Witness ==
    /\ LoopOver
    /\ devObeys
    /\ devStart = 921600
    /\ SensorBaudrate = 115200
    /\ baudSet
    /\ portBaud = 115200

\* C4: the loop terminates; when it ends without success it has made
\* exactly one pass over the 9 candidates (i = 9), the port is closed, and
\* no candidate was tried twice.
C4_OnePassThenNoResponse ==
    /\ [](LoopOver /\ ~baudSet =>
            /\ i = Len(candidates)
            /\ ~portOpen
            /\ \A k, m \in 1..Len(attempts) :
                 attempts[k].idx = attempts[m].idx => k = m)
    /\ [](InLoop => i <= LastIndex)
    /\ (InLoop ~> LoopOver)

\* Every one of the 8 admissible candidates was tried and failed.
C4_Witness ==
    /\ pc = "verify"
    /\ ~baudSet
    /\ Len(attempts) = 8

(***************************************************************************)
(* resetOdom is a function of the origin globals.  To apply it to every    *)
(* value they can take, this specification starts the program, with its    *)
(* default serial_baud and the candidate order of line 209, from an origin *)
(* that is unset or already set to a position.                             *)
(***************************************************************************)
InitAnyOrigin ==
    /\ InitProcess
    /\ candidates = RatesLine209
    /\ SensorBaudrate = 115200
    /\ async_output_rate = DefaultAsyncRate
    /\ SensorImuRate = DefaultImuRate
    /\ \/ initial_position_set = FALSE /\ initial_position = ZeroVec
       \/ initial_position_set = TRUE /\ initial_position \in Positions

SpecAnyOrigin == InitAnyOrigin /\ [][Next]_vars

(***************************************************************************)
(* Properties of the steps after the loop, of the reset request, of the    *)
(* packet callback and of shutdown.                                        *)
(***************************************************************************)
\* C5: when the loop has ended without a link and the connectivity check
\* has failed, the process is not terminated.
C5_LinkFailureNotFatal ==
    (~baudSet /\ verified = "failed") => pc # "aborted"

\* A step in which ros::spin() runs resetOdom.
ResetStep == resetsPending' = resetsPending + 1

\* C6: resetOdom returns success and leaves the flag cleared whatever the
\* flag was, applying it to its own result changes nothing, a reset
\* request changes no other variable of the program, and a second request
\* in a row leaves the state of the first.
C6_ResetClearsFlagOnly ==
    /\ [](LET r == resetOdom(initial_position_set) IN
            /\ r.ret
            /\ ~r.isSet
            /\ resetOdom(r.isSet) = r)
    /\ [][ResetStep =>
            /\ ~initial_position_set'
            /\ srvRet' = "true"
            /\ UNCHANGED <<pc, configVars, streamVars, linkVars, deviceVars, settleVars,
                           handlerRegistered, verified, covVars,
                           initial_position, packetVars>>]_vars
    /\ [][(ResetStep /\ resetsPending >= 1) =>
            UNCHANGED <<initial_position_set, srvRet>>]_vars

\* Two requests in a row have cleared an origin that was set at a position.
C6_Witness ==
    /\ resetsPending = 2
    /\ srvRet = "true"
    /\ ~initial_position_set
    /\ initial_position \in Positions

\* A step in which the callback finishes a packet that carries a position.
PositionPacketDone == cb = "running" /\ cb' = "idle" /\ cbPacket.hasPos

\* C7: the origin is unset at start-up; a packet with a position that is
\* processed while the origin is unset sets the origin to that position
\* and sets the flag; a set origin changes only by a reset request.
C7_FirstFixSetsOrigin ==
    /\ (pc = "cov_linear" => ~initial_position_set)
    /\ [][(PositionPacketDone /\ ~initial_position_set) =>
            /\ initial_position_set'
            /\ initial_position' = cbPacket.pos]_vars
    /\ [][(initial_position_set /\ ~ResetStep) =>
            UNCHANGED <<initial_position, initial_position_set>>]_vars

Minus(a, b) == [k \in 1..3 |-> a[k] - b[k]]
OdomRecord(p) == [kind |-> "odom", position |-> p]

\* C8: the position packet that follows two reset requests is reported
\* with relative position (0,0,0); a position packet that follows no reset
\* is reported with its position minus the origin.
C8_ZeroOnceAfterDoubleReset ==
    /\ [][(PositionPacketDone /\ resetsPending >= 2) =>
            published' = Append(published, OdomRecord(ZeroVec))]_vars
    /\ [][(PositionPacketDone /\ resetsPending = 0 /\ initial_position_set) =>
            published' = Append(published,
                OdomRecord(Minus(cbPacket.pos, initial_position)))]_vars

\* C9: shutdown unregisters the handler, waits, then disconnects; no
\* callback starts once the handler is unregistered, none is running when
\* the connection is closed, and main returns 0 with the port closed
\* whether or not a link had been established.
C9_ShutdownQuiesces ==
    /\ [](pc \in {"grace", "disconnect", "settle", "done"} =>
            ~handlerRegistered)
    /\ [](pc \in {"settle", "done"} => ~portOpen)
    /\ [][(cb = "idle" /\ cb' = "running") => handlerRegistered]_vars
    /\ [][(pc = "disconnect" /\ pc' = "settle") => cb = "idle"]_vars

\* C10: a configured covariance value that is not exactly 9 numeric
\* entries terminates the process, before any connect attempt and before
\* any other call to the device.
C10_MalformedCovarianceAborts ==
    cfgMalformed =>
        /\ pc = "aborted"
        /\ attempts = <<>>
        /\ verified = "none"

(***************************************************************************)
(* Properties of the two paths that reach the origin.                      *)
(***************************************************************************)
\* C11: resetOdom and the packet callback never access the same origin
\* global at the same time: whenever both are executing, the globals the
\* reset handler writes and those the callback reads or writes are
\* disjoint; a callback step never changes the origin, so it undoes no
\* reset and works on no stale copy.
C11_OriginAccessesExclusive ==
    /\ []((srv = "running" /\ cb = "running") =>
            ResetOriginAccesses \cap CallbackOriginAccesses(cbPacket) = {})
    /\ [][(cb # cb') =>
            UNCHANGED <<initial_position, initial_position_set>>]_vars

\* resetOdom is executing while the callback processes a position packet.
C11_Witness ==
    /\ srv = "running"
    /\ cb = "running"
    /\ cbPacket.hasPos

Record(kind, p) == [kind |-> kind, position |-> p]

\* The records a packet is to yield: one per category whose fields it has.
RecordsFor(p) ==
    (IF p.hasImu THEN <<Record("imu", ZeroVec)>> ELSE <<>>)
    \o (IF p.hasPos THEN <<Record("gps", p.pos)>> ELSE <<>>)

\* C12: processing a packet emits exactly one record for each category
\* whose fields the packet has and none for the others; a packet with GPS
\* fields only yields one GPS-fix record and no IMU record.
C12_OneRecordPerPresentCategory ==
    [][(cb = "running" /\ cb' = "idle") =>
         published' = published \o RecordsFor(cbPacket)]_vars

(***************************************************************************)
(* Properties of the failure path of the loop.                             *)
(***************************************************************************)
\* C13: every failed attempt ends in the catch block, which disconnects
\* and waits the settle interval and goes on to the increment; connect is
\* never called with a port left open by an earlier attempt; before each
\* attempt, every attempt made so far has been followed by a disconnect
\* and a wait; and the loop is left without success only when the list is
\* exhausted.
C13_FailedAttemptDisconnectsAndGoesOn ==
    /\ [](pc = "body" =>
            /\ ~portOpen
            /\ loopDisconnects = Len(attempts)
            /\ loopSleeps = Len(attempts))
    /\ [][(pc = "catch" /\ pc' # pc) =>
            /\ ~portOpen'
            /\ loopDisconnects' = loopDisconnects + 1
            /\ loopSleeps' = loopSleeps + 1
            /\ pc' = "incr"]_vars
    /\ [][(pc = "incr" /\ pc' = "verify" /\ ~baudSet) =>
            i' = Len(candidates)]_vars

\* Two attempts have failed, one of them after a connect that had opened
\* the port, and the loop is about to try the next candidate.
C13_Witness ==
    /\ pc = "body"
    /\ loopSleeps = 2
    /\ portBaud # 0
    /\ ~portOpen

(***************************************************************************)
(* A specification for the stream configuration: the two rate parameters   *)
(* are drawn from pairs that divide evenly, do not divide evenly, have a   *)
(* quotient of zero, a zero divisor, a negative quotient, and a quotient    *)
(* that is not an int.                                                     *)
(***************************************************************************)
RatePairs == {<<40, 800>>, <<33, 800>>, <<1000, 800>>, <<0, 800>>,
              <<-40, 800>>, <<-1, IntMin>>}

InitStream ==
    /\ InitProcess
    /\ candidates = RatesLine209
    /\ SensorBaudrate = 115200
    /\ \E rates \in RatePairs :
         /\ async_output_rate = rates[1]
         /\ SensorImuRate = rates[2]
    /\ initial_position = ZeroVec
    /\ initial_position_set = FALSE

SpecStream == InitStream /\ [][Next]_vars

WriteRegs == [k \in 1..Len(writes) |-> writes[k].reg]

StreamOrder == <<"freq", "bor", "freq">>

IsPrefix(s, t) == Len(s) <= Len(t) /\ \A k \in 1..Len(s) : s[k] = t[k]

AllAccepted == \A k \in 1..Len(writes) : writes[k].ok

StreamConfigured == Len(writes) = Len(StreamOrder) /\ AllAccepted

\* C14: the stream is configured by the writes output frequency, binary
\* output register, output frequency, in this order, each issued only when
\* the ones before it were accepted; the callback is registered, and a
\* packet delivered, only after all three were accepted; a rejected write
\* ends the process with the callback unregistered.
C14_WritesInOrderThenRegister ==
    /\ [](IsPrefix(WriteRegs, StreamOrder))
    /\ [](\A k \in 1..Len(writes) : k < Len(writes) => writes[k].ok)
    /\ [](handlerRegistered \/ nPackets > 0 => StreamConfigured)
    /\ [][~handlerRegistered /\ handlerRegistered'
            => pc = "register" /\ StreamConfigured]_vars
    /\ [](~AllAccepted => pc = "aborted" /\ ~handlerRegistered)

C14_Witness ==
    /\ handlerRegistered
    /\ nPackets > 0
    /\ StreamConfigured
    /\ WriteRegs = StreamOrder

BorWrites == {k \in 1..Len(writes) : writes[k].reg = "bor"}

ValidRates ==
    /\ async_output_rate > 0
    /\ SensorImuRate >= async_output_rate

\* C15: every update period sent to the device is a positive integer, the
\* quotient fixed_imu_rate / async_output_rate (rounded down when the
\* rates do not divide evenly), and a pair of rates whose quotient is not
\* positive is rejected before any value is sent to the device.
C15_PeriodPositiveOrRejected ==
    /\ \A k \in BorWrites :
         /\ writes[k].value >= 1
         /\ writes[k].value * async_output_rate <= SensorImuRate
         /\ SensorImuRate < (writes[k].value + 1) * async_output_rate
    /\ (~ValidRates => writes = <<>>)

\* C16: the stream writes and the callback registration happen only when
\* the negotiation ended with an established link: no write is issued and
\* no callback registered while baudSet is false, and each write and the
\* registration is a step taken with the link established and the port
\* open.
C16_StreamOnlyOnEstablishedLink ==
    /\ [](~baudSet => writes = <<>> /\ ~handlerRegistered)
    /\ [](LoopOver /\ ~baudSet => ~portOpen)
    /\ [][writes' # writes => baudSet /\ portOpen]_vars
    /\ [][~handlerRegistered /\ handlerRegistered'
            => baudSet /\ portOpen]_vars

\* The link was established after failed attempts, and the stream was
\* configured and the callback registered on it.
C16_Witness ==
    /\ baudSet
    /\ portOpen
    /\ loopDisconnects > 0
    /\ Len(writes) = Len(StreamOrder)
    /\ handlerRegistered


(***************************************************************************)
(* Properties of the covariance loader.                                    *)
(***************************************************************************)
CovNames == {"linear_accel_covariance", "angular_vel_covariance",
             "orientation_covariance"}

CovOf(name) ==
    IF name = "linear_accel_covariance" THEN linear_accel_covariance
    ELSE IF name = "angular_vel_covariance" THEN angular_vel_covariance
    ELSE orientation_covariance

\* The step of main that loads the parameter of this name.
LoadStepOf(name) ==
    IF name = "linear_accel_covariance" THEN pc = "cov_linear"
    ELSE IF name = "angular_vel_covariance" THEN pc = "cov_angular"
    ELSE pc = "cov_orient"

\* Element i of the matrix equals entry i of the input, for i in 0..8.
SameElements(matrix, rpc) ==
    \A k \in 1..CovSize : matrix[k] = rpc.elems[k].val

\* C17: a configured covariance value of exactly 9 numeric entries is
\* converted by setCov to the matrix with the same 9 elements in the same
\* order, and main goes on; a covariance whose parameter is not configured
\* is the all-zero matrix.
C17_NumericInputKeptInOrder ==
    /\ [](\A name \in CovNames :
            name \notin configured => CovOf(name) = ZeroCov)
    /\ [][\A name \in CovNames :
            (/\ LoadStepOf(name)
             /\ name \in configured'
             /\ NineNumeric(rpc_temp'))
            => /\ pc' # "aborted"
               /\ SameElements(CovOf(name)', rpc_temp')]_vars


(***************************************************************************)
(* Consequences of the loop guard and of the empty callback body.          *)
(***************************************************************************)
\* C18: when the requested rate is 128000 every candidate is skipped: the
\* loop makes no connect attempt, no disconnect and no settle wait, the
\* port is never opened, and the loop ends after as many iterations as
\* there are candidates (9) with the link not established, whatever the
\* device's rate.
C18_IncompatibleRequestSkipsAll ==
    SensorBaudrate = Incompatible =>
        /\ attempts = <<>>
        /\ loopDisconnects = 0
        /\ loopSleeps = 0
        /\ ~portOpen
        /\ ~baudSet
        /\ pc \notin {"connected", "catch"}
        /\ (InLoop => i <= LastIndex)
        /\ (LoopOver => i = Len(candidates) /\ i = LastIndex + 1)

C18_Witness ==
    /\ SensorBaudrate = Incompatible
    /\ LoopOver
    /\ devObeys
    /\ i = Len(candidates)

Compatible(rate) == rate # Incompatible

\* C19: the loop succeeds only through a probe at a candidate other than
\* 128000; with a device that answers only at its current rate, and that
\* rate 128000 or not in the candidate list, the loop ends for every
\* requested rate with all candidates passed and the link not established,
\* having attempted exactly the candidates other than 128000, in list
\* order, when the requested rate is not 128000.
C19_SuccessOnlyThroughCompatibleProbe ==
    /\ (baudSet =>
          /\ attempts # <<>>
          /\ attempts[Len(attempts)].probe # Incompatible
          /\ InList(candidates, attempts[Len(attempts)].probe))
    /\ (/\ LoopOver
        /\ devObeys
        /\ devStart \in {Incompatible} \cup Unlisted)
       => /\ ~baudSet
          /\ ~portOpen
          /\ i = Len(candidates)
          /\ (SensorBaudrate # Incompatible =>
                /\ AttemptProbes = SelectSeq(candidates, Compatible)
                /\ Len(attempts) = Len(candidates) - 1)

C19_Witness ==
    /\ LoopOver
    /\ devObeys
    /\ devStart = Incompatible
    /\ SensorBaudrate # Incompatible
    /\ Len(attempts) = LastIndex

\* C20: a step of the packet callback (a packet arriving, the callback
\* returning) changes no driver state: the origin, the covariances, the
\* link, the stream configuration and main's position are as before it;
\* and the origin flag is false in every reachable state.
C20_CallbackChangesNothing ==
    /\ [][(cb # cb' \/ nPackets # nPackets')
            => UNCHANGED <<originVars, covVars, linkVars, streamVars,
                           configVars, settleVars, handlerRegistered,
                           verified, srv, srvRet, published, pc>>]_vars
    /\ [](~initial_position_set)
    /\ [](initial_position = ZeroVec)

\* A first packet was processed, a reset ran, and a packet with a position
\* is in the callback.
C20_Witness ==
    /\ nPackets = MaxPackets
    /\ cb = "running"
    /\ cbPacket.hasPos
    /\ resetsPending > 0
    /\ ~initial_position_set

====
